---- MODULE Spec2Model ----
(***************************************************************************)
(* Model of cyaml (src/cyaml.h): the cyclic diagnostic log, the lexer with *)
(* its one-token lookahead, and the token loop of cyaml_parse.             *)
(*                                                                         *)
(* A size_t value v < 2^63 is the integer v; the value 2^64 - k (what an   *)
(* unsigned decrement below zero yields) is the integer -k.  The slot      *)
(* cyaml_log_stack[2^64 - k] has the address of cyaml_log_stack - k rows,  *)
(* i.e. memory in front of the array, which the model keeps in "below".    *)
(***************************************************************************)
EXTENDS Integers, Sequences, FiniteSets, TLC

\* ---------------------------------------------------------------- bounds
MaxPush   == 23   \* pushes in one behaviour of the log specification
MaxPops   == 3    \* pops in one behaviour of the log specification
MaxLen    == 4    \* characters in a source buffer (the terminating NUL not counted)
MaxCalls  == 4    \* cyaml_token_get / cyaml_token_peek calls in one lexer behaviour
MaxSrcLen == 2    \* characters in a generated source handed to cyaml_parse
MaxParses == 2    \* cyaml_parse calls in one behaviour
MaxApi    == 1    \* cyaml_lookup / cyaml_free calls in one behaviour
MaxDrainPops == 22 \* cyaml_error_pop calls in one behaviour that fills and drains the log
MaxOut    == 16   \* printed lines of one cyaml_parse call that the model records

\* ------------------------------------------------------ program constants
CYAML_LOG_MESSAGE_CAPACITY == 256
CYAML_LOG_STACK_CAPACITY   == 20
SizeBits == 64    \* width of size_t

VARIABLES
    cyaml_log_stack,        \* [0..CAPACITY-1 -> STRING], the rows of the array
    cyaml_log_stack_ptr,    \* size_t write position (see the representation above)
    cyaml_log_stack_size,   \* size_t number of retained messages
    below,                  \* [1..MaxPops -> STRING], the rows in front of the array
    fault,                  \* "none" | "read" | "write": the last access left the array
    ret,                    \* what the last cyaml_error_pop returned
    npush,                  \* number of cyaml_log_message calls so far
    npop,                   \* number of cyaml_error_pop calls so far
    ref,                    \* reference log: bounded LIFO, oldest first
    buffer,                 \* the NUL-terminated source text, a sequence of characters
    p,                      \* the caller's cursor into buffer (1 = first character)
    peeked,                 \* static size_t peeked
    peek_token,             \* static cyaml_token_t peek_token
    indent_level,           \* static size_t indent_level
    token,                  \* the token the last lexer call returned
    ops,                    \* the lexer calls made so far, "get" or "peek"
    delivered,              \* the tokens cyaml_token_get returned so far
    pc,                     \* "idle" | "test" | "body" | "crashed": where cyaml_parse is
    src,                    \* the text cyaml_parse is given (loc = DISK: the file's text)
    loc,                    \* "MEMORY" | "DISK"
    nparse,                 \* cyaml_parse calls that have returned
    napi,                   \* cyaml_lookup / cyaml_free calls so far
    result,                 \* the pointer the last call returned: "none" | "NULL" | "doc"
    last,                   \* the last public call: "none" | "parse" | "pop" | "lookup" | "free"
    out,                    \* the lines the running or last cyaml_parse printed
    first,                  \* the lines the first cyaml_parse printed
    live                    \* the allocations not yet freed

logvars == <<cyaml_log_stack, cyaml_log_stack_ptr, cyaml_log_stack_size,
             below, fault, ret, npush, npop, ref>>

lexvars == <<buffer, p, peeked, peek_token, indent_level, token, ops, delivered>>

parsevars == <<pc, src, loc, nparse, napi, result, last, out, first, live>>

vars == <<logvars, lexvars, parsevars>>

NoError == "No error."
Garbage == "<bytes in front of cyaml_log_stack>"

Slots == 0 .. (CYAML_LOG_STACK_CAPACITY - 1)

\* 2^n mod m, computed without leaving 32-bit integers
RECURSIVE Pow2Mod(_, _)
Pow2Mod(n, m) == IF n = 0 THEN 1 % m ELSE (2 * Pow2Mod(n - 1, m)) % m

\* (v + 1) % m for a size_t v: 2^64 - 1 + 1 wraps to 0 before the modulo
IncMod(v, m) ==
    IF v >= 0 THEN (v + 1) % m
    ELSE IF v = -1 THEN 0
    ELSE (Pow2Mod(SizeBits, m) + m * (1 + ((-v) \div m)) + v + 1) % m

\* vsnprintf(row, CYAML_LOG_MESSAGE_CAPACITY - 1, ...) into a zeroed row
Format(msg) ==
    IF Len(msg) <= CYAML_LOG_MESSAGE_CAPACITY - 2 THEN msg
    ELSE SubSeq(msg, 1, CYAML_LOG_MESSAGE_CAPACITY - 2)

\* text of the k-th message pushed in the log specification
Msg(k) == "m" \o ToString(k)

\* the log as one value: the array, the rows in front of it, and the statics
Log == [stack |-> cyaml_log_stack, ptr |-> cyaml_log_stack_ptr,
        size |-> cyaml_log_stack_size, below |-> below, fault |-> fault]

cyaml_log_stack_empty(L) == L.size = 0

cyaml_log_stack_full(L) == L.size = CYAML_LOG_STACK_CAPACITY

\* the row cyaml_log_stack[i] of the log L
Row(L, i) == IF i \in Slots THEN L.stack[i] ELSE L.below[-i]

\* the log after cyaml_log_message(msg) on the log L
cyaml_log_message(L, msg) ==
    [stack |-> IF L.ptr \in Slots THEN [L.stack EXCEPT ![L.ptr] = Format(msg)]
               ELSE L.stack,
     below |-> IF L.ptr \in Slots THEN L.below
               ELSE [L.below EXCEPT ![-L.ptr] = Format(msg)],
     fault |-> IF L.ptr \in Slots THEN "none" ELSE "write",
     size  |-> IF ~cyaml_log_stack_full(L) THEN L.size + 1 ELSE L.size,
     ptr   |-> IncMod(L.ptr, CYAML_LOG_STACK_CAPACITY)]

\* the test "cyaml_log_stack_ptr < 0" of an unsigned value is never true
UnsignedNegative(v) == FALSE

\* cyaml_error_pop on the log L: the log afterwards and the string returned
cyaml_error_pop(L) ==
    IF ~cyaml_log_stack_empty(L)
    THEN LET dec == L.ptr - 1
             np  == IF UnsignedNegative(dec)
                    THEN dec + CYAML_LOG_STACK_CAPACITY ELSE dec
         IN [log |-> [L EXCEPT !.size = L.size - 1, !.ptr = np,
                               !.fault = IF np \in Slots THEN "none" ELSE "read"],
             ret |-> Row(L, np)]
    ELSE [log |-> [L EXCEPT !.fault = "none"], ret |-> NoError]

\* cyaml_log_message for each message of msgs, in order
RECURSIVE LogAll(_, _)
LogAll(L, msgs) ==
    IF msgs = <<>> THEN L
    ELSE LogAll(cyaml_log_message(L, Head(msgs)), Tail(msgs))

\* the statics of the log become those of L
SetLog(L) ==
    /\ cyaml_log_stack' = L.stack
    /\ cyaml_log_stack_ptr' = L.ptr
    /\ cyaml_log_stack_size' = L.size
    /\ below' = L.below
    /\ fault' = L.fault

\* ------------------------------------------------------------------ lexer
NUL == "<NUL>"
VT  == "<VT>"

\* the characters source buffers are built from
Chars == {"a", " ", "\n", ":", "-", "\"", "\\", "\r"}

Buffers == UNION {[1 .. n -> Chars] : n \in 0 .. MaxLen}

Letters == {"a", "b", "c", "d", "e", "f", "g", "h", "i", "j", "k", "l", "m",
            "n", "o", "p", "q", "r", "s", "t", "u", "v", "w", "x", "y", "z",
            "A", "B", "C", "D", "E", "F", "G", "H", "I", "J", "K", "L", "M",
            "N", "O", "P", "Q", "R", "S", "T", "U", "V", "W", "X", "Y", "Z"}

isspace(c) == c \in {" ", "\t", "\n", VT, "\f", "\r"}

isalpha(c) == c \in Letters

\* *q for a cursor q into buf
CharAt(buf, q) == IF q \in 1 .. Len(buf) THEN buf[q] ELSE NUL

RECURSIVE strspn(_, _, _)
strspn(buf, q, accept) ==
    IF CharAt(buf, q) # NUL /\ CharAt(buf, q) \in accept
    THEN 1 + strspn(buf, q + 1, accept) ELSE 0

RECURSIVE strcspn(_, _, _)
strcspn(buf, q, reject) ==
    IF CharAt(buf, q) # NUL /\ CharAt(buf, q) \notin reject
    THEN 1 + strcspn(buf, q + 1, reject) ELSE 0

\* a token; data is a cursor into the buffer (0 = NULL); the string literal an
\* error token points at is kept in msg
CYAML_TOKEN_CREATE(type, len, data) ==
    [type |-> type, len |-> len, data |-> data, msg |-> ""]

CYAML_EMPTY_CREATE == CYAML_TOKEN_CREATE("EMPTY", 0, 0)
CYAML_COLON_CREATE == CYAML_TOKEN_CREATE("COLON", 0, 0)
CYAML_STRING_CREATE(len, data) == CYAML_TOKEN_CREATE("STRING", len, data)
CYAML_SYMBOL_CREATE(len, data) == CYAML_TOKEN_CREATE("SYMBOL", len, data)
CYAML_INDENT_CREATE(len) == CYAML_TOKEN_CREATE("INDENT", len, 0)
CYAML_UNDENT_CREATE(len) == CYAML_TOKEN_CREATE("UNDENT", len, 0)
CYAML_DASH_CREATE == CYAML_TOKEN_CREATE("DASH", 0, 0)
CYAML_END_CREATE == CYAML_TOKEN_CREATE("END", 0, 0)
CYAML_ERROR_CREATE(error) ==
    [type |-> "ERROR", len |-> Len(error), data |-> 0, msg |-> error]

CYAML_TOKEN_KEYP(t) == t.type = "SYMBOL"
CYAML_TOKEN_COLONP(t) == t.type = "COLON"

\* the closing-quote search without the q[-1] test: it stops at the first quote
StringScanNoEscape(buf, q) == q + strcspn(buf, q, {"\""})

\* the while loop that looks for the closing quote, from q
RECURSIVE StringScan(_, _)
StringScan(buf, q) ==
    IF CharAt(buf, q) # "\"" /\ CharAt(buf, q) # NUL
    THEN LET q1 == q + strcspn(buf, q, {"\""})
         IN IF CharAt(buf, q1) = NUL THEN q1
            ELSE IF CharAt(buf, q1 - 1) = "\\" THEN StringScan(buf, q1 + 1)
            ELSE StringScan(buf, q1)
    ELSE q

\* the cursor after the newline run that cyaml_token_get skips
SkipNewlines(buf, cur) ==
    IF CharAt(buf, cur) = "\n" THEN cur + strspn(buf, cur, {"\n"}) ELSE cur

\* the whitespace branch of cyaml_token_get, with p0 on a space character
LexSpace(buf, p0, lvl) ==
    LET q == p0 + strspn(buf, p0, {" ", "\t"})
        current_indent_level == q - p0
    IN [tok |-> IF current_indent_level = lvl THEN CYAML_EMPTY_CREATE
                ELSE IF current_indent_level > lvl
                     THEN CYAML_INDENT_CREATE(current_indent_level)
                ELSE CYAML_UNDENT_CREATE(current_indent_level),
        cur |-> q, lvl |-> current_indent_level]

\* cyaml_token_get without the test of *q against NUL after the closing-quote
\* search
LexFreshNoNulTest(buf, cur, lvl) ==
    LET p0 == SkipNewlines(buf, cur)
        c  == CharAt(buf, p0)
    IN IF c = NUL THEN [tok |-> CYAML_END_CREATE, cur |-> cur, lvl |-> lvl]
       ELSE IF isspace(c) THEN LexSpace(buf, p0, lvl)
       ELSE IF isalpha(c) THEN
            LET q == p0 + strcspn(buf, p0, {" ", "\t", "\n", "\"", ":", "-"})
            IN IF CharAt(buf, q) = "\""
               THEN [tok |-> CYAML_ERROR_CREATE("Invalid symbol!"),
                     cur |-> cur, lvl |-> lvl]
               ELSE [tok |-> CYAML_SYMBOL_CREATE(q - p0, p0), cur |-> q, lvl |-> lvl]
       ELSE IF c = "\"" THEN
            LET p1 == p0 + 1
                q  == StringScan(buf, p1)
            IN [tok |-> CYAML_STRING_CREATE(q - p1, p1), cur |-> q + 1, lvl |-> lvl]
       ELSE IF c = "-" THEN [tok |-> CYAML_DASH_CREATE, cur |-> p0 + 1, lvl |-> lvl]
       ELSE IF c = ":" THEN [tok |-> CYAML_COLON_CREATE, cur |-> p0 + 1, lvl |-> lvl]
       ELSE [tok |-> CYAML_ERROR_CREATE("Unrecognized token!"), cur |-> cur, lvl |-> lvl]

\* cyaml_token_get with a symbol delimiter set that lacks the dash
LexFreshNoDash(buf, cur, lvl) ==
    LET p0 == SkipNewlines(buf, cur)
        c  == CharAt(buf, p0)
    IN IF c = NUL THEN [tok |-> CYAML_END_CREATE, cur |-> cur, lvl |-> lvl]
       ELSE IF isspace(c) THEN LexSpace(buf, p0, lvl)
       ELSE IF isalpha(c) THEN
            LET q == p0 + strcspn(buf, p0, {" ", "\t", "\n", "\"", ":"})
            IN IF CharAt(buf, q) = "\""
               THEN [tok |-> CYAML_ERROR_CREATE("Invalid symbol!"),
                     cur |-> cur, lvl |-> lvl]
               ELSE [tok |-> CYAML_SYMBOL_CREATE(q - p0, p0), cur |-> q, lvl |-> lvl]
       ELSE IF c = "\"" THEN
            LET p1 == p0 + 1
                q  == StringScan(buf, p1)
            IN IF CharAt(buf, q) = NUL
               THEN [tok |-> CYAML_ERROR_CREATE("Unterminated string!"),
                     cur |-> cur, lvl |-> lvl]
               ELSE [tok |-> CYAML_STRING_CREATE(q - p1, p1), cur |-> q + 1, lvl |-> lvl]
       ELSE IF c = "-" THEN [tok |-> CYAML_DASH_CREATE, cur |-> p0 + 1, lvl |-> lvl]
       ELSE IF c = ":" THEN [tok |-> CYAML_COLON_CREATE, cur |-> p0 + 1, lvl |-> lvl]
       ELSE [tok |-> CYAML_ERROR_CREATE("Unrecognized token!"), cur |-> cur, lvl |-> lvl]

\* cyaml_token_get when no token is buffered: the token, the caller's cursor
\* and indent_level afterwards
LexFresh(buf, cur, lvl) ==
    LET p0 == SkipNewlines(buf, cur)
        c  == CharAt(buf, p0)
    IN IF c = NUL THEN [tok |-> CYAML_END_CREATE, cur |-> cur, lvl |-> lvl]
       ELSE IF isspace(c) THEN LexSpace(buf, p0, lvl)
       ELSE IF isalpha(c) THEN
            LET q == p0 + strcspn(buf, p0, {" ", "\t", "\n", "\"", ":", "-"})
            IN IF CharAt(buf, q) = "\""
               THEN [tok |-> CYAML_ERROR_CREATE("Invalid symbol!"),
                     cur |-> cur, lvl |-> lvl]
               ELSE [tok |-> CYAML_SYMBOL_CREATE(q - p0, p0), cur |-> q, lvl |-> lvl]
       ELSE IF c = "\"" THEN
            LET p1 == p0 + 1
                q  == StringScan(buf, p1)
            IN IF CharAt(buf, q) = NUL
               THEN [tok |-> CYAML_ERROR_CREATE("Unterminated string!"),
                     cur |-> cur, lvl |-> lvl]
               ELSE [tok |-> CYAML_STRING_CREATE(q - p1, p1), cur |-> q + 1, lvl |-> lvl]
       ELSE IF c = "-" THEN [tok |-> CYAML_DASH_CREATE, cur |-> p0 + 1, lvl |-> lvl]
       ELSE IF c = ":" THEN [tok |-> CYAML_COLON_CREATE, cur |-> p0 + 1, lvl |-> lvl]
       ELSE [tok |-> CYAML_ERROR_CREATE("Unrecognized token!"), cur |-> cur, lvl |-> lvl]

\* cyaml_token_get without the test of peeked: it always lexes from the buffer
cyaml_token_get_nobuf(buf, cur, pk, pt, lvl) ==
    LET r == LexFresh(buf, cur, lvl)
    IN [tok |-> r.tok, cur |-> r.cur, peeked |-> pk, peek_token |-> pt, lvl |-> r.lvl]

\* cyaml_token_get(&cur) with the statics pk = peeked, pt = peek_token,
\* lvl = indent_level: the token returned, the cursor and the statics afterwards
cyaml_token_get(buf, cur, pk, pt, lvl) ==
    IF pk # 0
    THEN [tok |-> pt, cur |-> cur, peeked |-> 0, peek_token |-> pt, lvl |-> lvl]
    ELSE LET r == LexFresh(buf, cur, lvl)
         IN [tok |-> r.tok, cur |-> r.cur, peeked |-> pk, peek_token |-> pt,
             lvl |-> r.lvl]

\* cyaml_token_peek(&cur): lexes through a copy of the cursor
cyaml_token_peek(buf, cur, pk, pt, lvl) ==
    LET g == cyaml_token_get(buf, cur, pk, pt, lvl)
    IN [tok |-> g.tok, cur |-> cur, peeked |-> 1, peek_token |-> g.tok, lvl |-> g.lvl]

LogIdle ==
    /\ cyaml_log_stack = [i \in Slots |-> ""]
    /\ cyaml_log_stack_ptr = 0
    /\ cyaml_log_stack_size = 0
    /\ below = [i \in 1 .. MaxPops |-> ""]
    /\ fault = "none"
    /\ ret = ""
    /\ npush = 0
    /\ npop = 0
    /\ ref = <<>>

LexIdle ==
    /\ buffer = <<>>
    /\ p = 1
    /\ peeked = 0
    /\ peek_token = CYAML_EMPTY_CREATE
    /\ indent_level = 0
    /\ token = CYAML_EMPTY_CREATE
    /\ ops = <<>>
    /\ delivered = <<>>

ParseIdle ==
    /\ pc = "idle"
    /\ src = <<>>
    /\ loc = "MEMORY"
    /\ nparse = 0
    /\ napi = 0
    /\ result = "none"
    /\ last = "none"
    /\ out = <<>>
    /\ first = <<>>
    /\ live = {}

\* ---------------------------------------------------- lexer specification
\* the buffer "a\"b" of the spec's round trip, quotes included (6 characters)
EscapedExample == <<"\"", "a", "\\", "\"", "b", "\"">>

\* a symbol that a tab ends, then a symbol that a quote stops
TabExample == <<"a", "\t", "a", "\"">>

LexBuffers == Buffers \cup {EscapedExample, TabExample}

InitLex ==
    /\ LogIdle
    /\ ParseIdle
    /\ buffer \in LexBuffers
    /\ p = 1
    /\ peeked = 0
    /\ peek_token = CYAML_EMPTY_CREATE
    /\ indent_level = 0
    /\ token = CYAML_EMPTY_CREATE
    /\ ops = <<>>
    /\ delivered = <<>>

Get ==
    /\ Len(ops) < MaxCalls
    /\ LET g == cyaml_token_get(buffer, p, peeked, peek_token, indent_level)
       IN /\ token' = g.tok
          /\ p' = g.cur
          /\ peeked' = g.peeked
          /\ peek_token' = g.peek_token
          /\ indent_level' = g.lvl
          /\ delivered' = Append(delivered, g.tok)
    /\ ops' = Append(ops, "get")
    /\ UNCHANGED <<buffer, logvars, parsevars>>

Peek ==
    /\ Len(ops) < MaxCalls
    /\ LET g == cyaml_token_peek(buffer, p, peeked, peek_token, indent_level)
       IN /\ token' = g.tok
          /\ p' = g.cur
          /\ peeked' = g.peeked
          /\ peek_token' = g.peek_token
          /\ indent_level' = g.lvl
    /\ ops' = Append(ops, "peek")
    /\ UNCHANGED <<buffer, delivered, logvars, parsevars>>

NextLex == Get \/ Peek

SpecLex == InitLex /\ [][NextLex]_vars

\* ------------------------------------------------- reference log (spec 4.1)
RefPush(s, msg) ==
    IF Len(s) = CYAML_LOG_STACK_CAPACITY THEN Append(Tail(s), msg)
    ELSE Append(s, msg)

RefPop(s) == IF s = <<>> THEN s ELSE SubSeq(s, 1, Len(s) - 1)

RefTop(s) == IF s = <<>> THEN NoError ELSE s[Len(s)]

\* ------------------------------------------------------ log specification
InitLog ==
    /\ LexIdle
    /\ ParseIdle
    /\ cyaml_log_stack = [i \in Slots |-> ""]
    /\ cyaml_log_stack_ptr = 0
    /\ cyaml_log_stack_size = 0
    /\ below \in [1 .. MaxPops -> {"", Garbage}]
    /\ fault = "none"
    /\ ret = ""
    /\ npush = 0
    /\ npop = 0
    /\ ref = <<>>

Push ==
    /\ npush < MaxPush
    /\ SetLog(cyaml_log_message(Log, Msg(npush + 1)))
    /\ npush' = npush + 1
    /\ ref' = RefPush(ref, Format(Msg(npush + 1)))
    /\ UNCHANGED <<ret, npop, lexvars, parsevars>>

Pop ==
    /\ pc = "idle"
    /\ npop < MaxPops
    /\ LET r == cyaml_error_pop(Log)
       IN SetLog(r.log) /\ ret' = r.ret
    /\ npop' = npop + 1
    /\ ref' = RefPop(ref)
    /\ last' = "pop"
    /\ UNCHANGED <<npush, lexvars, pc, src, loc, nparse, napi, result, out, first, live>>

NextLog == Push \/ Pop

SpecLog == InitLog /\ [][NextLog]_vars

\* ------------------------------------------------------------ cyaml_parse
\* the inputs of scenarios A, B and C of the specification
ScenarioA ==
    <<"n", "a", "m", "e", ":", " ", "A", "l", "i", "c", "e", "\n", "a",
    "g", "e", ":", " ", "3", "0", "\n">>

ScenarioB ==
    <<"i", "t", "e", "m", "s", ":", "\n", " ", " ", "-", " ", "o", "n",
    "e", "\n", " ", " ", "-", " ", "t", "w", "o", "\n">>

ScenarioC ==
    <<"a", ":", "\n", " ", " ", "b", ":", " ", "1", "\n">>

ValidSources == {ScenarioA, ScenarioB, ScenarioC}

\* scenario D (a duplicated key), scenario E (an unterminated string) and a
\* source whose lines are indented by 0, 4 and 2
ScenarioD ==
    <<"a", ":", " ", "1", "\n", "a", ":", " ", "2", "\n">>

ScenarioE ==
    <<"k", ":", " ", "\"", "a", "b", "c", "\n">>

BadUndent ==
    <<"a", ":", "\n", " ", " ", " ", " ", "b", ":", "\n", " ", " ", "c",
    ":", "\n">>

ErrorSources == {ScenarioD, ScenarioE, BadUndent}

Sources ==
    ValidSources \cup ErrorSources \cup UNION {[1 .. n -> Chars] : n \in 0 .. MaxSrcLen}

\* malloc in cyaml_create: NULL and a message when it fails; success falls off
\* the end of the function, and the caller only tests the value
cyaml_create(oom) ==
    [null |-> oom, msgs |-> IF oom THEN <<"Ran out of memory!">> ELSE <<>>]

ReadOutcomes == {"open", "empty", "nomem", "read", "ok"}

\* cyaml_read_file for a file with the text content, by what the C library does
cyaml_read_file(outcome, content) ==
    IF outcome = "open" THEN [null |-> TRUE, msgs |-> <<"Failed to open file!">>]
    ELSE IF outcome = "empty" \/ Len(content) = 0
         THEN [null |-> TRUE, msgs |-> <<"File was empty!">>]
    ELSE IF outcome = "nomem" THEN [null |-> TRUE, msgs |-> <<"Ran out of memory!">>]
    ELSE IF outcome = "read" THEN [null |-> TRUE, msgs |-> <<"Failed to read file!">>]
    ELSE [null |-> FALSE, msgs |-> <<>>]

\* what the printf calls of the token loop write for the token t
Printed(buf, t) ==
    IF t.type \in {"INDENT", "UNDENT"} THEN <<[kind |-> t.type, len |-> t.len, text |-> <<>>]>>
    ELSE IF t.type \in {"STRING", "SYMBOL"}
         THEN <<[kind |-> t.type, len |-> t.len,
                 text |-> SubSeq(buf, t.data, t.data + t.len - 1)]>>
    ELSE IF t.type \in {"DASH", "COLON"} THEN <<[kind |-> t.type, len |-> 0, text |-> <<>>]>>
    ELSE <<>>

\* the messages msgs are pushed, in order
PushAll(msgs) ==
    /\ SetLog(LogAll(Log, msgs))
    /\ npush' = npush + Len(msgs)
    /\ ref' = IF msgs = <<>> THEN ref
              ELSE IF Len(msgs) = 1 THEN RefPush(ref, Format(msgs[1]))
              ELSE RefPush(RefPush(ref, Format(msgs[1])), Format(msgs[2]))

\* cyaml_parse from its entry to the first test of the token loop
ParseEnter ==
    /\ pc = "idle"
    /\ nparse < MaxParses
    /\ last' = "parse"
    /\ IF Len(src) = 0
       THEN /\ result' = "NULL"
            /\ nparse' = nparse + 1
            /\ out' = <<>>
            /\ first' = IF nparse = 0 THEN <<>> ELSE first
            /\ UNCHANGED <<logvars, lexvars, pc, live>>
       ELSE \E oom \in BOOLEAN, outcome \in ReadOutcomes, dup \in BOOLEAN :
            LET storage == cyaml_create(oom)
                file == IF loc = "DISK" THEN cyaml_read_file(outcome, src)
                        ELSE [null |-> ~dup, msgs |-> <<>>]
                g == cyaml_token_get(src, 1, peeked, peek_token, indent_level)
            IN /\ PushAll(storage.msgs \o file.msgs)
               /\ live' = live \cup (IF storage.null THEN {} ELSE {"storage"})
                               \cup (IF file.null THEN {} ELSE {"buffer"})
               /\ out' = <<>>
               /\ UNCHANGED <<ret, npop, nparse, first, result, ops, delivered>>
               /\ IF file.null
                  THEN /\ pc' = "crashed"
                       /\ UNCHANGED <<buffer, p, peeked, peek_token, indent_level, token>>
                  ELSE /\ pc' = "test"
                       /\ buffer' = src
                       /\ token' = g.tok
                       /\ p' = g.cur
                       /\ peeked' = g.peeked
                       /\ peek_token' = g.peek_token
                       /\ indent_level' = g.lvl
    /\ UNCHANGED <<src, loc, napi>>

\* the test of the while loop, and the return when it fails
LoopTest ==
    /\ pc = "test"
    /\ IF token.type # "ERROR" /\ token.type # "END"
       THEN /\ pc' = "body"
            /\ UNCHANGED <<result, nparse, first, live>>
       ELSE /\ pc' = "idle"
            /\ live' = live \ {"buffer"}
            /\ result' = "NULL"
            /\ nparse' = nparse + 1
            /\ first' = IF nparse = 0 THEN out ELSE first
    /\ UNCHANGED <<logvars, lexvars, src, loc, napi, last, out>>

\* one pass through the body of the while loop
LoopBody ==
    /\ pc = "body"
    /\ LET k == IF CYAML_TOKEN_KEYP(token)
                THEN cyaml_token_peek(buffer, p, peeked, peek_token, indent_level)
                ELSE [tok |-> token, cur |-> p, peeked |-> peeked,
                      peek_token |-> peek_token, lvl |-> indent_level]
           g == cyaml_token_get(buffer, p, k.peeked, k.peek_token, k.lvl)
       IN /\ out' = IF Len(out) < MaxOut THEN out \o Printed(buffer, token) ELSE out
          /\ token' = g.tok
          /\ p' = g.cur
          /\ peeked' = g.peeked
          /\ peek_token' = g.peek_token
          /\ indent_level' = g.lvl
    /\ pc' = "test"
    /\ UNCHANGED <<logvars, buffer, ops, delivered, src, loc, nparse, napi,
                   result, last, first, live>>

\* cyaml_lookup: logs that it is not implemented and returns NULL
Lookup ==
    /\ pc = "idle"
    /\ napi < MaxApi
    /\ PushAll(<<"TODO: Implement 'cyaml_lookup'">>)
    /\ result' = "NULL"
    /\ last' = "lookup"
    /\ napi' = napi + 1
    /\ UNCHANGED <<ret, npop, lexvars, pc, src, loc, nparse, out, first, live>>

\* cyaml_free: logs that it is not implemented and releases nothing
Free ==
    /\ pc = "idle"
    /\ napi < MaxApi
    /\ PushAll(<<"TODO: Implement 'cyaml_free'">>)
    /\ last' = "free"
    /\ napi' = napi + 1
    /\ UNCHANGED <<ret, npop, lexvars, pc, src, loc, nparse, result, out, first, live>>

Init ==
    /\ LogIdle
    /\ LexIdle
    /\ pc = "idle"
    /\ src \in Sources
    /\ loc \in {"MEMORY", "DISK"}
    /\ nparse = 0
    /\ napi = 0
    /\ result = "none"
    /\ last = "none"
    /\ out = <<>>
    /\ first = <<>>
    /\ live = {}

Next == ParseEnter \/ LoopTest \/ LoopBody \/ Pop \/ Lookup \/ Free

Spec == Init /\ [][Next]_vars

\* a call that has started keeps running until it returns
SpecFair == Spec /\ WF_vars(LoopTest) /\ WF_vars(LoopBody)

\* cyaml_parse alone, with no other public call between its steps
NextParse == ParseEnter \/ LoopTest \/ LoopBody

SpecParse == Init /\ [][NextParse]_vars

\* ------------------------------------------------------------- log claims
\* push order of a row's message: k for the k-th message pushed, 0 for a row
\* that holds no pushed message
Age(m) == IF \E k \in 1 .. MaxPush : Format(Msg(k)) = m
          THEN CHOOSE k \in 1 .. MaxPush : Format(Msg(k)) = m ELSE 0

\* C1: a pop on a non-empty log returns the message that a bounded LIFO stack
\* of capacity CYAML_LOG_STACK_CAPACITY dropping its oldest entry on overflow
\* would return, also after the write position has wrapped around.
C1_PopIsLifo ==
    [][(npop' = npop + 1 /\ ~cyaml_log_stack_empty(Log)) => ret' = RefTop(ref)]_vars

\* C2: a push onto a full log keeps the size at the capacity and overwrites
\* exactly the oldest message the array retains; every other row is unchanged.
C2_PushEvictsOldest ==
    [][(npush' = npush + 1 /\ cyaml_log_stack_full(Log)) =>
          /\ cyaml_log_stack_size' = CYAML_LOG_STACK_CAPACITY
          /\ \E i \in Slots :
                /\ \A j \in Slots :
                      Age(cyaml_log_stack[i]) <= Age(cyaml_log_stack[j])
                /\ cyaml_log_stack' =
                      [cyaml_log_stack EXCEPT ![i] = Format(Msg(npush + 1))]]_vars

\* ----------------------------------------------------------- lexer claims
\* the tokens that n successive cyaml_token_get calls return when no
\* cyaml_token_peek is ever made, from cursor cur and indent_level lvl
RECURSIVE Stream(_, _, _, _)
Stream(buf, cur, lvl, n) ==
    IF n = 0 THEN <<>>
    ELSE LET r == LexFresh(buf, cur, lvl)
         IN <<r.tok>> \o Stream(buf, r.cur, r.lvl, n - 1)

\* C3: the tokens cyaml_token_get delivers are the same with cyaml_token_peek
\* calls interleaved as without them: no source token is delivered twice.
C3_PeekTransparent ==
    delivered = Stream(buffer, 1, 0, Len(delivered))

IsPeekStep == ops' = Append(ops, "peek")

IsGetStep == ops' = Append(ops, "get")

LastOp == IF ops = <<>> THEN "none" ELSE ops[Len(ops)]

\* C4: cyaml_token_peek leaves the cursor where it is, a peek that follows a
\* peek returns the same token again, a peek with nothing buffered returns the
\* token a get would lex at the cursor, and at most one lookahead token is
\* buffered.
C4_PeekIdempotent ==
    [][IsPeekStep =>
          /\ p' = p
          /\ peeked' = 1
          /\ peek_token' = token'
          /\ (LastOp = "peek" => token' = token /\ peeked = 1)
          /\ (peeked = 0 => token' = LexFresh(buffer, p, indent_level).tok)]_vars

\* two peeks in a row at the start of an indented line: both return Indent(1)
C4_Witness ==
    /\ Len(ops) >= 2
    /\ ops[Len(ops)] = "peek"
    /\ ops[Len(ops) - 1] = "peek"
    /\ token.type = "INDENT"
    /\ peeked = 1

\* the cursor cur is at the first character of a logical line
AtLineStart(buf, cur) == cur = 1 \/ CharAt(buf, cur - 1) = "\n"

\* a lexer call that lexes from the buffer instead of returning the lookahead
IsFreshStep == (IsGetStep \/ IsPeekStep) /\ peeked = 0

\* C5: whitespace between two tokens of one line produces no Indent or Undent
\* token and leaves the recorded indentation level alone.
C5_IndentOnlyAtLineStart ==
    [][(IsFreshStep /\ ~AtLineStart(buffer, SkipNewlines(buffer, p))) =>
          /\ token'.type \notin {"INDENT", "UNDENT"}
          /\ indent_level' = indent_level]_vars

\* C6: for every logical line that starts with a token the length of its leading space/tab run (0 for a
\* line that starts at column 0) is compared with the recorded level: greater
\* gives Indent(run), less gives Undent(run), equal gives neither, and the
\* recorded level is the run length afterwards.
C6_EveryLineMeasured ==
    [][(/\ IsFreshStep
        /\ AtLineStart(buffer, SkipNewlines(buffer, p))
        /\ token'.type \notin {"END", "ERROR"}) =>
          LET run == strspn(buffer, SkipNewlines(buffer, p), {" ", "\t"})
          IN /\ run > indent_level => token' = CYAML_INDENT_CREATE(run)
             /\ run < indent_level => token' = CYAML_UNDENT_CREATE(run)
             /\ run = indent_level => token'.type \notin {"INDENT", "UNDENT"}
             /\ indent_level' = run]_vars

\* ----------------------------------------------------------- parse claims
\* C7: when cyaml_parse stops at an Error token, the next cyaml_error_pop
\* returns the message of that error.
C7_LexErrorLogged ==
    [][(pc = "idle" /\ last = "parse" /\ nparse > 0 /\ Len(src) > 0
        /\ token.type = "ERROR" /\ npop' = npop + 1) => ret' = token.msg]_vars

\* C8: for a valid source cyaml_parse returns a document, and cyaml_lookup on
\* it returns a node.
C8_ValidSourceParses ==
    (pc = "idle" /\ src \in ValidSources /\ nparse > 0 /\ last \in {"parse", "lookup"})
        => result = "doc"

\* C9: a cyaml_parse call that has entered its token loop returns.
C9_ParseTerminates == (pc \in {"test", "body"}) ~> (pc = "idle")

\* C10: the second cyaml_parse of a buffer lexes and prints what the first did.
C10_ParseIdempotent ==
    (pc = "idle" /\ last = "parse" /\ nparse = 2) => out = first

\* the indentation levels of the blocks still open after the printed lines
\* lines: an Indent opens its level, an Undent closes every deeper level
RECURSIVE OpenLevels(_)
OpenLevels(lines) ==
    IF lines = <<>> THEN {0}
    ELSE LET before == OpenLevels(SubSeq(lines, 1, Len(lines) - 1))
             l == lines[Len(lines)]
         IN IF l.kind = "INDENT" THEN before \cup {l.len}
            ELSE IF l.kind = "UNDENT" THEN {n \in before : n <= l.len}
            ELSE before

\* C11: an Undent to a level that is the level of no open block is rejected:
\* the token loop never goes on to process it.
C11_BadUndentRejected ==
    (pc = "body" /\ token.type = "UNDENT" /\ Len(out) < MaxOut)
        => token.len \in OpenLevels(out)

\* the string k occurs in the string m
Mentions(m, k) ==
    \E i \in 1 .. (Len(m) - Len(k) + 1) : SubSeq(m, i, i + Len(k) - 1) = k

\* every string the code logs or returns from cyaml_error_pop; none of them
\* reports a duplicated key
CodeMessages ==
    {NoError, "Failed to open file!", "File was empty!", "Ran out of memory!",
     "Failed to read file!", "TODO: Implement 'cyaml_lookup'",
     "TODO: Implement 'cyaml_free'", "Invalid symbol!", "Unterminated string!",
     "Unrecognized token!"}

\* C12: after cyaml_parse of a mapping that has the key a twice, the message
\* cyaml_error_pop returns is a duplicate-key error that mentions a.
C12_DuplicateKeyLogged ==
    [][(pc = "idle" /\ last = "parse" /\ nparse > 0 /\ src = ScenarioD
        /\ npop' = npop + 1) =>
          (ret' \notin CodeMessages /\ Mentions(ret', "a"))]_vars

\* the characters a String or Symbol token t of buf stands for
Content(buf, t) == SubSeq(buf, t.data, t.data + t.len - 1)

\* C13 as stated: the String token of "a\"b" has the three characters a"b as
\* its content.
C13_EscapedQuoteUnescaped ==
    (buffer = EscapedExample /\ token.type = "STRING")
        => Content(buffer, token) = <<"a", "\"", "b">>

\* C13 amended: a String token is the slice of the buffer between the opening
\* quote and the closing quote, backslashes kept; the closing quote is not
\* preceded by a backslash and every quote inside the slice is; the token of
\* "a\"b" is the four characters a\"b.
C13_StringIsRawSlice ==
    token.type = "STRING" =>
        /\ token.data >= 2
        /\ token.data + token.len <= Len(buffer)
        /\ buffer[token.data - 1] = "\""
        /\ buffer[token.data + token.len] = "\""
        /\ buffer[token.data + token.len - 1] # "\\"
        /\ \A i \in token.data .. (token.data + token.len - 1) :
              buffer[i] = "\"" => (i > token.data /\ buffer[i - 1] = "\\")
        /\ buffer = EscapedExample =>
              Content(buffer, token) = <<"a", "\\", "\"", "b">>

C13_Witness ==
    /\ buffer = EscapedExample
    /\ ops = <<"get">>
    /\ token = CYAML_STRING_CREATE(4, 2)
    /\ p = 7

\* the quote at position o of buf opens a string that no later quote closes:
\* every later quote is preceded by a backslash
UnterminatedAt(buf, o) ==
    /\ CharAt(buf, o) = "\""
    /\ \A c \in (o + 1) .. Len(buf) : buf[c] = "\"" => buf[c - 1] = "\\"

LoadFailures == {"Failed to open file!", "File was empty!", "Failed to read file!"}

\* C15: once cyaml_parse from disk has logged a load failure, it has returned
\* NULL to its caller (the lexer was not run on the missing buffer) and the
\* failure is the message the next cyaml_error_pop returns.
C15_LoadFailureReturns ==
    (loc = "DISK" /\ last = "parse" /\ RefTop(ref) \in {Format(m) : m \in LoadFailures})
        => (pc = "idle" /\ result = "NULL" /\ cyaml_error_pop(Log).ret = RefTop(ref))

\* C16: when cyaml_parse has returned NULL, nothing it allocated (the storage
\* of cyaml_create, the source buffer) is still live.
C16_FailedParseReleasesAll ==
    (pc = "idle" /\ last = "parse" /\ result = "NULL") => live = {}

\* the characters that end a symbol
Delims == {" ", "\t", "\n", ":", "\"", "-"}

\* the first position from s on that holds a delimiter or the terminating NUL
SymbolEnd(buf, s) ==
    CHOOSE e \in s .. (Len(buf) + 1) :
        /\ CharAt(buf, e) \in Delims \cup {NUL}
        /\ \A i \in s .. (e - 1) : buf[i] \notin Delims

\* C17: a Symbol token starts at a letter and ends right before the next
\* space, tab, newline, colon, quote or dash, or at the end of the buffer; when
\* that next character is a quote the token is the Error "Invalid symbol!" and
\* the cursor stays.
C17_SymbolExtent ==
    /\ [](token.type = "SYMBOL" =>
            /\ isalpha(CharAt(buffer, token.data))
            /\ token.len = SymbolEnd(buffer, token.data) - token.data
            /\ CharAt(buffer, token.data + token.len) # "\"")
    /\ [][(IsFreshStep /\ isalpha(CharAt(buffer, SkipNewlines(buffer, p)))) =>
            LET s == SkipNewlines(buffer, p)
                e == SymbolEnd(buffer, s)
            IN IF CharAt(buffer, e) = "\""
               THEN token' = CYAML_ERROR_CREATE("Invalid symbol!") /\ p' = p
               ELSE /\ token' = CYAML_SYMBOL_CREATE(e - s, s)
                    /\ IsGetStep => p' = e]_vars

\* a-a" : Symbol a, Dash, then the Error for the symbol the quote stops
C17_Witness ==
    /\ buffer = <<"a", "-", "a", "\"">>
    /\ ops = <<"get", "get", "get">>
    /\ delivered[1] = CYAML_SYMBOL_CREATE(1, 1)
    /\ delivered[2] = CYAML_DASH_CREATE
    /\ token = CYAML_ERROR_CREATE("Invalid symbol!")
    /\ p = 3

\* ------------------------------------- log specification: fill, then drain
\* a caller that fills the log to its capacity before its first
\* cyaml_error_pop, and logs again only once the log is empty
InitDrain ==
    /\ LexIdle
    /\ ParseIdle
    /\ cyaml_log_stack = [i \in Slots |-> ""]
    /\ cyaml_log_stack_ptr = 0
    /\ cyaml_log_stack_size = 0
    /\ below \in {[i \in 1 .. CYAML_LOG_STACK_CAPACITY |-> g] : g \in {"", Garbage}}
    /\ fault = "none"
    /\ ret = ""
    /\ npush = 0
    /\ npop = 0
    /\ ref = <<>>

DrainPush ==
    /\ npop = 0 \/ cyaml_log_stack_empty(Log)
    /\ Push

DrainPop ==
    /\ npush >= CYAML_LOG_STACK_CAPACITY
    /\ npop < MaxDrainPops
    /\ LET r == cyaml_error_pop(Log)
       IN SetLog(r.log) /\ ret' = r.ret
    /\ npop' = npop + 1
    /\ ref' = RefPop(ref)
    /\ last' = "pop"
    /\ UNCHANGED <<npush, lexvars, pc, src, loc, nparse, napi, result, out, first, live>>

NextDrain == DrainPush \/ DrainPop

SpecDrain == InitDrain /\ [][NextDrain]_vars

\* C18: cyaml_error_pop on an empty log returns "No error." and leaves the
\* stack, the write position and the size as they are; the pop that follows a
\* pop on the empty log and one cyaml_log_message returns the message logged.
C18_EmptyPopIsNeutral ==
    [][(npop' = npop + 1) =>
          /\ cyaml_log_stack_empty(Log) =>
                /\ ret' = NoError
                /\ UNCHANGED <<cyaml_log_stack, cyaml_log_stack_ptr, cyaml_log_stack_size>>
          /\ (ret = NoError /\ cyaml_log_stack_size = 1) =>
                ret' = Format(Msg(npush))]_vars

\* C19: the write position is a slot of cyaml_log_stack, the size is at most
\* the capacity, and no call has read or written outside the array.
C19_LogInBounds ==
    /\ cyaml_log_stack_ptr \in Slots
    /\ cyaml_log_stack_size \in 0 .. CYAML_LOG_STACK_CAPACITY
    /\ fault = "none"

\* C20: a cyaml_token_get that lexes from the buffer and returns a token other
\* than End or Error moves the cursor forward by at least one character; no
\* call moves the cursor backwards or past the terminating NUL.
C20_CursorAdvances ==
    [][(IsGetStep \/ IsPeekStep) =>
          /\ p' >= p
          /\ p' <= Len(buffer) + 1
          /\ (IsGetStep /\ peeked = 0 /\ token'.type \notin {"END", "ERROR"})
                => p' > p]_vars

====
